---- MODULE Spec2Model ----
(***************************************************************************)
(* Model of src/src/atldld/sync.py:                                        *)
(*   get_parallel_transform     the pure coordinate transform              *)
(*   download_parallel_dataset  the generator driving it over a dataset    *)
(*                                                                         *)
(* Python sequences are 0-based, TLA+ sequences 1-based: row r of a numpy  *)
(* array is element r+1 of the sequence modelling it.  A matrix is the     *)
(* sequence of its rows.  All matrix entries are integers; a value divided *)
(* by 2 ** downsample_img is kept exactly, as the fraction <<n, d>>.       *)
(***************************************************************************)
EXTENDS Integers, Sequences, FiniteSets, TLC

VARIABLES
    \* ---- download_parallel_dataset: arguments and locals of one invocation
    args,               \* [downsample_ref, detection_xy, include_expression, downsample_img]
    pc,                 \* position of the generator body
    metadata_2d_dict,   \* what get_2d_bulk returned: the items of the dict, in dict order
    metadata_2d,        \* the sorted list of (image_id, affine_2d, section_number)
    affine_3d,          \* what get_3d returned
    axis,               \* what CommonQueries.get_axis returned
    idx,                \* cursor of the for loop over metadata_2d
    pir,                \* (p, i, r) of the current image
    df,                 \* result of get_parallel_transform for the current image
    img,                \* raw image of the current image
    trace,              \* history: consumer requests, calls, yields, raises, in order
    emitted,            \* history: the records handed to the consumer, in order
    previous,           \* history: the dataset-level calls of the invocation before
    \* ---- get_parallel_transform called on its own
    t_pc,               \* "idle" | "called" | "returned"
    t_args,             \* the six arguments of the call
    t_res,              \* its outcome
    t_prev              \* the call made before this one, if any

gen_vars == <<args, pc, metadata_2d_dict, metadata_2d, affine_3d, axis, idx, pir,
              df, img, trace, emitted, previous>>
t_vars == <<t_pc, t_args, t_res, t_prev>>
vars == <<gen_vars, t_vars>>

----------------------------------------------------------------------------
(* Small helpers for matrices *)

Rows(m) == Len(m)
Cols(m) == IF Len(m) = 0 THEN 0 ELSE Len(m[1])

\* Python `a // b` (floor division) for b # 0
FloorDiv(a, b) == IF b > 0 THEN a \div b ELSE (-a) \div (-b)

\* a factor that grows by one with k
Pow2Linear(k) == k + 1

RECURSIVE Pow2(_)
\* Python `2 ** k` for k >= 0
Pow2(k) == IF k = 0 THEN 1 ELSE 2 * Pow2(k - 1)

\* Python `n / d` for d a power of two: the exact value, as the fraction <<n, d>>
\* (two fractions are the same number when their cross products agree)
Fraction(n, d) == <<n, d>>

\* a column-major layout of the grid
FlatIndexColumnMajor(i, j, grid_shape) == (j - 1) * grid_shape[1] + i

\* numpy `row.reshape(grid_shape)`: row-major, cell (i, j) of the grid holds the
\* element of flat (0-based) index i * grid_shape[1] + j; here all 1-based
FlatIndex(i, j, grid_shape) == (i - 1) * grid_shape[2] + j

----------------------------------------------------------------------------
(* get_parallel_transform *)

refspace ==
    << <<"coronal", 13200>>, <<"transverse", 8000>>, <<"sagittal", 11400>> >>

RECURSIVE IndicesFrom(_, _, _)
\* [i for i, a in enumerate(refspace) if (a[0] == axis) == want], from index i on
IndicesFrom(i, ax, want) ==
    IF i > Len(refspace) THEN <<>>
    ELSE (IF (refspace[i][1] = ax) = want THEN <<i>> ELSE <<>>)
         \o IndicesFrom(i + 1, ax, want)

\* a lookup that falls back to the first axis for an unknown name
axis_fixed_list_with_default(ax) ==
    IF IndicesFrom(1, ax, TRUE) = <<>> THEN <<1>> ELSE IndicesFrom(1, ax, TRUE)

\* the list whose element [0] is axis_fixed
axis_fixed_list(ax) == IndicesFrom(1, ax, TRUE)

\* the two other axes in reverse order
axes_variable_reversed(ax) ==
    <<IndicesFrom(1, ax, FALSE)[2], IndicesFrom(1, ax, FALSE)[1]>>

\* axes_variable = [i for i, a in enumerate(refspace) if a[0] != axis]
axes_variable_of(ax) == IndicesFrom(1, ax, FALSE)

\* a grid computed from the magnitude of downsample_ref
grid_shape_of_magnitude(ax, downsample_ref) ==
    LET av == axes_variable_of(ax)
        d == IF downsample_ref < 0 THEN -downsample_ref ELSE downsample_ref
    IN [k \in 1..Len(av) |-> FloorDiv(refspace[av[k]][2], d)]

\* a grid whose dimensions are rounded up
grid_shape_of_rounded_up(ax, downsample_ref) ==
    LET av == axes_variable_of(ax)
    IN [k \in 1..Len(av) |-> -FloorDiv(-refspace[av[k]][2], downsample_ref)]

\* grid_shape = [refspace[i][1] // downsample_ref for i in axes_variable]
grid_shape_of(ax, downsample_ref) ==
    LET av == axes_variable_of(ax)
    IN [k \in 1..Len(av) |-> FloorDiv(refspace[av[k]][2], downsample_ref)]

\* n_pixels = np.prod(grid_shape): the number of columns of coords_ref,
\* coords_temp and coords_img, one per point transformed
n_pixels_of(ax, downsample_ref) ==
    grid_shape_of(ax, downsample_ref)[1] * grid_shape_of(ax, downsample_ref)[2]

\* coords_ref[row, k] after lines 85-87 (a grid without negative dimension):
\* ones, the fixed row times slice_coordinate, the variable rows the two rows of
\* np.indices(grid_shape).reshape(2, -1) * downsample_ref
coords_ref_at(row, k, slice_coordinate, ax, downsample_ref) ==
    IF row = axis_fixed_list(ax)[1] THEN 1 * slice_coordinate
    ELSE IF row = axes_variable_of(ax)[1]
         THEN ((k - 1) \div grid_shape_of(ax, downsample_ref)[2]) * downsample_ref
    ELSE IF row = axes_variable_of(ax)[2]
         THEN ((k - 1) % grid_shape_of(ax, downsample_ref)[2]) * downsample_ref
    ELSE 1

\* (affine_3d @ coords_ref)[row, k], line 90: (r, 4) x (4, n_pixels)
affine_3d_coords_ref_at(row, k, a3, slice_coordinate, ax, downsample_ref) ==
      a3[row][1] * coords_ref_at(1, k, slice_coordinate, ax, downsample_ref)
    + a3[row][2] * coords_ref_at(2, k, slice_coordinate, ax, downsample_ref)
    + a3[row][3] * coords_ref_at(3, k, slice_coordinate, ax, downsample_ref)
    + a3[row][4] * coords_ref_at(4, k, slice_coordinate, ax, downsample_ref)

\* coords_temp[row, k] after lines 89-90: rows [0, 1] = (affine_3d @
\* coords_ref)[:2], a single row being broadcast to both; the third row stays ones
coords_temp_at(row, k, a3, slice_coordinate, ax, downsample_ref) ==
    IF row = 3 THEN 1
    ELSE affine_3d_coords_ref_at(IF Rows(a3) = 1 THEN 1 ELSE row, k, a3,
                                 slice_coordinate, ax, downsample_ref)

\* coords_img[row, k], line 92: (r, 3) x (3, n_pixels)
coords_img_at(row, k, a2, a3, slice_coordinate, ax, downsample_ref) ==
      a2[row][1] * coords_temp_at(1, k, a3, slice_coordinate, ax, downsample_ref)
    + a2[row][2] * coords_temp_at(2, k, a3, slice_coordinate, ax, downsample_ref)
    + a2[row][3] * coords_temp_at(3, k, a3, slice_coordinate, ax, downsample_ref)

\* tx (row = 1) or ty (row = 2), lines 94-95: the row of coords_img reshaped to
\* grid_shape and divided by 2 ** downsample_img
t_grid(row, slice_coordinate, a2, a3, ax, downsample_ref, downsample_img) ==
    [i \in 1..grid_shape_of(ax, downsample_ref)[1] |->
        [j \in 1..grid_shape_of(ax, downsample_ref)[2] |->
            Fraction(coords_img_at(row, FlatIndex(i, j, grid_shape_of(ax, downsample_ref)),
                                   a2, a3, slice_coordinate, ax, downsample_ref),
                     Pow2(downsample_img))]]

\* outcome of a call that raised at source line `line`, after `arrays` of the
\* coordinate arrays coords_ref, coords_temp were allocated (np.ones) and
\* `matmuls` matrix products were computed
Raised(exc, line, arrays, matmuls) ==
    [status |-> exc, line |-> line, arrays |-> arrays, matmuls |-> matmuls,
     grid_shape |-> <<>>, tx |-> <<>>, ty |-> <<>>]

\* outcome of a call that returned DisplacementField.from_transform(tx, ty)
Returned(gs, tx, ty) ==
    [status |-> "ok", line |-> 101, arrays |-> 2, matmuls |-> 2,
     grid_shape |-> gs, tx |-> tx, ty |-> ty]

\* line 79: `[...][0]` raises IndexError on the empty list
AxisLookupFails(ax) == axis_fixed_list(ax) = <<>>

\* a check of the whole documented shape (3, 4)
MatMul3dFailsUnlessConforming(a3) == Cols(a3) # 4 \/ Rows(a3) # 3

\* line 90: affine_3d @ coords_ref, coords_ref of shape (4, n_pixels)
MatMul3dFails(a3) == Cols(a3) # 4

\* line 92: affine_2d @ coords_temp, coords_temp of shape (3, n_pixels)
MatMul2dFails(a2) == Cols(a2) # 3

get_parallel_transform(slice_coordinate, a2, a3, ax, downsample_ref, downsample_img) ==
    IF AxisLookupFails(ax) THEN Raised("IndexError", 79, 0, 0)
    ELSE IF downsample_ref = 0 THEN Raised("ZeroDivisionError", 82, 0, 0)
    ELSE
      LET gs == grid_shape_of(ax, downsample_ref)
      IN \* np.indices raises on a negative dimension (n_pixels is never negative:
         \* both dimensions have the sign of downsample_ref)
         IF gs[1] < 0 \/ gs[2] < 0 THEN Raised("ValueError", 87, 1, 0)
         ELSE IF MatMul3dFails(a3) THEN Raised("ValueError", 90, 2, 0)
         ELSE IF MatMul2dFails(a2) THEN Raised("ValueError", 92, 2, 1)
         ELSE IF Rows(a2) < 2 THEN Raised("IndexError", 95, 2, 2)
         ELSE Returned(gs,
                  t_grid(1, slice_coordinate, a2, a3, ax, downsample_ref, downsample_img),
                  t_grid(2, slice_coordinate, a2, a3, ax, downsample_ref, downsample_img))

----------------------------------------------------------------------------
(* download_parallel_dataset: the data its collaborators may return *)

MaxImages == 3
MaxSection == 2
ExtraRequests == 1

\* the affine_2d the metadata holds for an image: distinct per image
Affine2DFor(image_id) == << <<1, 0, image_id>>, <<0, 1, 0>> >>

\* the orders in which a mapping of n images may list its keys
KeyOrders(n) == {[k \in 1..n |-> k], [k \in 1..n |-> n + 1 - k]}

\* the mappings get_2d_bulk may return, as the sequence of their items
\* (image_id, (affine_2d, section_number)) in dict order; keys are distinct
MetadataDicts ==
    UNION {{[k \in 1..n |-> <<ids[k], <<Affine2DFor(ids[k]), secs[k]>>>>] :
                ids \in KeyOrders(n), secs \in [1..n -> 1..MaxSection]} :
           n \in 0..MaxImages}

Affine3DReturns ==
    { << <<0, 1, 0, 0>>, <<0, 0, 1, 0>>, <<0, 0, 0, 1>> >>,
      << <<1, 0, 0>>, <<0, 1, 0>>, <<0, 0, 1>> >> }

AxisReturns == {"coronal", "sagittal", "transverse", "oblique"}

\* the reference-space point (p, i, r) the service holds for detection_xy in an
\* image: distinct per image, its three coordinates distinct
PirFor(xy, image_id) ==
    <<10 * image_id + 1 + xy[1], 10 * image_id + 2 + xy[2], 10 * image_id + 3>>

DownsampleRefArgs == {4000}
DownsampleImgArgs == {1}

----------------------------------------------------------------------------
(* download_parallel_dataset: pure parts *)

\* a sort key without the minus sign: lowest section number first
SortKeyAscending(x) == x[3]

\* key=lambda x: -int(x[2]); section numbers are integers, int() keeps them
SortKey(x) == -x[3]

RECURSIVE InsertSorted(_, _)
\* x inserted into the sorted list s behind every element whose key is <= its own
InsertSorted(s, x) ==
    IF s = <<>> THEN <<x>>
    ELSE IF SortKey(x) < SortKey(s[1])
         THEN <<x>> \o s
         ELSE <<s[1]>> \o InsertSorted(Tail(s), x)

RECURSIVE SortedFrom(_, _)
SortedFrom(done, rest) ==
    IF rest = <<>> THEN done
    ELSE SortedFrom(InsertSorted(done, rest[1]), Tail(rest))

\* Python sorted(list, key=SortKey): ascending in the key, stable
Sorted(list) == SortedFrom(<<>>, list)

\* [(image_id, affine_2d, section_number) for image_id, (affine_2d,
\*   section_number) in metadata_2d_dict.items()]
MetadataList(dict) == [k \in 1..Len(dict) |-> <<dict[k][1], dict[k][2][1], dict[k][2][2]>>]

\* the coordinate taken from p whatever the axis
slice_ref_coordinate_always_p(ax, v) == v[1]

\* slice_ref_coordinate = p if axis == "coronal" else r
slice_ref_coordinate_of(ax, v) == IF ax = "coronal" THEN v[1] ELSE v[3]

\* what get_image returns: the pixels the collaborator holds for these arguments
Image(image_id, downsample, expression) ==
    [image_id |-> image_id, downsample |-> downsample, expression |-> expression]

\* a four-tuple that drops the slice coordinate and carries the image twice
Record4WithImageTwice(image_id, coordinate, image, field) ==
    <<image_id, image, image, field, image>>

\* the tuple of `yield image_id, slice_ref_coordinate, img, df`
Record4(image_id, coordinate, image, field) == <<image_id, coordinate, image, field>>

\* the tuple of `yield image_id, slice_ref_coordinate, img, df, img_expression`
Record5(image_id, coordinate, image, field, img_expression) ==
    <<image_id, coordinate, image, field, img_expression>>

\* the test of line 201 inverted
YieldsWithoutExpressionInverted(include_expression) == include_expression

\* the branch of line 201 that yields without the expression image
YieldsWithoutExpression(include_expression) == ~include_expression

\* one entry of the history
Ev(ev, id, ok, val) == [ev |-> ev, id |-> id, ok |-> ok, val |-> val]

NumRequests == Cardinality({k \in 1..Len(trace) : trace[k].ev = "next"})

\* the requests made so far on the finished generator: those behind the
\* generator's return or raise
NumLateRequests ==
    Cardinality({k \in 1..Len(trace) :
        /\ trace[k].ev = "next"
        /\ \E j \in 1..(k - 1) : trace[j].ev \in {"stop", "raise"}})

\* the calls made once for the whole dataset, lines 167-184
DatasetCalls == {"get_2d_bulk", "get_3d", "get_axis"}
IsDatasetCall(e) == e.ev \in DatasetCalls

\* the names of the dataset-level calls of a history, in order
DatasetCallsOf(tr) ==
    LET sel == SelectSeq(tr, IsDatasetCall)
    IN [k \in 1..Len(sel) |-> sel[k].ev]

NoInvocation == [invoked |-> FALSE, calls |-> <<>>]

image_id == metadata_2d[idx][1]
affine_2d == metadata_2d[idx][2]
slice_ref_coordinate == slice_ref_coordinate_of(axis, pir)

----------------------------------------------------------------------------
(* download_parallel_dataset: the steps of the generator *)

GenInit ==
    /\ args \in [downsample_ref : DownsampleRefArgs, detection_xy : {<<0, 0>>},
                 include_expression : BOOLEAN, downsample_img : DownsampleImgArgs]
    /\ pc = "created"
    /\ metadata_2d_dict = <<>>
    /\ metadata_2d = <<>>
    /\ affine_3d = <<>>
    /\ axis = ""
    /\ idx = 0
    /\ pir = <<0, 0, 0>>
    /\ df = <<>>
    /\ img = <<>>
    /\ trace = <<>>
    /\ emitted = <<>>
    /\ previous = NoInvocation

\* a second invocation that hands back the first generator where it has the
\* dataset-level data already
InvokeReusingGenerator ==
    /\ ~previous.invoked
    /\ pc \in {"created", "suspended", "done"}
    /\ previous' = [invoked |-> TRUE, calls |-> DatasetCallsOf(trace)]
    /\ pc' = IF pc \in {"suspended", "done"} THEN "suspended" ELSE "created"
    /\ idx' = 0
    /\ trace' = <<>>
    /\ emitted' = <<>>
    /\ UNCHANGED <<args, metadata_2d_dict, metadata_2d, affine_3d, axis, pir, df, img>>

\* the caller invokes download_parallel_dataset once more, with the same
\* arguments, before it has consumed the first sequence, between two of its
\* records or behind its end: a new generator object is created whose body has
\* not started; it shares nothing with the first
Invoke ==
    /\ ~previous.invoked
    /\ pc \in {"created", "suspended", "done"}
    /\ previous' = [invoked |-> TRUE, calls |-> DatasetCallsOf(trace)]
    /\ pc' = "created"
    /\ metadata_2d_dict' = <<>>
    /\ metadata_2d' = <<>>
    /\ affine_3d' = <<>>
    /\ axis' = ""
    /\ idx' = 0
    /\ pir' = <<0, 0, 0>>
    /\ df' = <<>>
    /\ img' = <<>>
    /\ trace' = <<>>
    /\ emitted' = <<>>
    /\ UNCHANGED args

\* the exception is swallowed and the failed call made again
RaiseCaughtAndRetried(events) ==
    /\ trace' = trace \o events
    /\ pc' = pc

\* an exception leaves the generator body: the consumer's request raises it and
\* the generator is finished
Raise(events) ==
    /\ trace' = trace \o events \o <<Ev("raise", 0, FALSE, <<>>)>>
    /\ pc' = "failed"

\* a loop that stops one element early
ForNextSkippingLast(list, tr) ==
    IF idx + 1 < Len(list)
    THEN /\ idx' = idx + 1
         /\ pc' = "xy_to_pir"
         /\ trace' = tr
    ELSE /\ idx' = idx
         /\ pc' = "done"
         /\ trace' = Append(tr, Ev("stop", 0, TRUE, <<>>))

\* line 186, reached with history tr: the for loop takes the next element of
\* metadata_2d (list), or the generator returns (StopIteration for the consumer)
ForNext(list, tr) ==
    IF idx < Len(list)
    THEN /\ idx' = idx + 1
         /\ pc' = "xy_to_pir"
         /\ trace' = tr
    ELSE /\ idx' = idx
         /\ pc' = "done"
         /\ trace' = Append(tr, Ev("stop", 0, TRUE, <<>>))

\* the record is handed over without suspending: the loop goes on at once
YieldWithoutSuspending(record, tr) ==
    /\ emitted' = Append(emitted, record)
    /\ ForNext(metadata_2d, Append(tr, Ev("yield", record[1], TRUE, <<>>)))

\* `yield record`, reached with history tr: the record goes to the consumer and
\* the generator is suspended until the next request
Yield(record, tr) ==
    /\ emitted' = Append(emitted, record)
    /\ trace' = Append(tr, Ev("yield", record[1], TRUE, <<>>))
    /\ pc' = "suspended"
    /\ UNCHANGED idx

\* the consumer calls next() on the generator.  A generator that has not started
\* runs from the top, a suspended one resumes behind its yield, a finished one
\* (returned or raised) raises StopIteration at once.
Request ==
    /\ pc \in {"created", "suspended", "done", "failed"}
    /\ pc \in {"done", "failed"} => NumLateRequests < ExtraRequests
    /\ LET tr == Append(trace, Ev("next", 0, TRUE, <<>>))
       IN CASE pc = "created" ->
                 /\ pc' = "get_2d_bulk"
                 /\ trace' = tr
                 /\ UNCHANGED idx
            [] pc = "suspended" -> ForNext(metadata_2d, tr)
            [] OTHER ->
                 /\ pc' = pc
                 /\ trace' = Append(tr, Ev("stop", 0, TRUE, <<>>))
                 /\ UNCHANGED idx
    /\ UNCHANGED <<previous, args, metadata_2d_dict, metadata_2d, affine_3d, axis,
                   pir, df, img, emitted>>

\* lines 167-177: get_2d_bulk, then the sort
Get2dBulk ==
    /\ pc = "get_2d_bulk"
    /\ \E ok \in BOOLEAN, dict \in MetadataDicts :
         IF ok
         THEN /\ metadata_2d_dict' = dict
              /\ metadata_2d' = Sorted(MetadataList(dict))
              /\ trace' = Append(trace, Ev("get_2d_bulk", 0, TRUE, <<>>))
              /\ pc' = "get_3d"
         ELSE /\ Raise(<<Ev("get_2d_bulk", 0, FALSE, <<>>)>>)
              /\ UNCHANGED <<metadata_2d_dict, metadata_2d>>
    /\ UNCHANGED <<previous, args, affine_3d, axis, idx, pir, df, img, emitted>>

\* lines 179-183: get_3d
Get3d ==
    /\ pc = "get_3d"
    /\ \E ok \in BOOLEAN, a3 \in Affine3DReturns :
         IF ok
         THEN /\ affine_3d' = a3
              /\ trace' = Append(trace, Ev("get_3d", 0, TRUE, <<>>))
              /\ pc' = "get_axis"
         ELSE /\ Raise(<<Ev("get_3d", 0, FALSE, <<>>)>>)
              /\ UNCHANGED affine_3d
    /\ UNCHANGED <<previous, args, metadata_2d_dict, metadata_2d, axis, idx, pir, df, img, emitted>>

\* lines 184-186: CommonQueries.get_axis, then the loop is entered
GetAxis ==
    /\ pc = "get_axis"
    /\ \E ok \in BOOLEAN, ax \in AxisReturns :
         IF ok
         THEN /\ axis' = ax
              /\ ForNext(metadata_2d, Append(trace, Ev("get_axis", 0, TRUE, <<ax>>)))
         ELSE /\ Raise(<<Ev("get_axis", 0, FALSE, <<>>)>>)
              /\ UNCHANGED <<axis, idx>>
    /\ UNCHANGED <<previous, args, metadata_2d_dict, metadata_2d, affine_3d, pir, df, img, emitted>>

\* line 187: xy_to_pir_API_single(*detection_xy, image_id=image_id)
XyToPir ==
    /\ pc = "xy_to_pir"
    /\ \E ok \in BOOLEAN :
         IF ok
         THEN LET v == PirFor(args.detection_xy, image_id)
              IN /\ pir' = v
                 /\ trace' = Append(trace, Ev("xy_to_pir_API_single", image_id, TRUE, v))
                 /\ pc' = "transform"
         ELSE /\ Raise(<<Ev("xy_to_pir_API_single", image_id, FALSE, <<>>)>>)
              /\ UNCHANGED pir
    /\ UNCHANGED <<previous, args, metadata_2d_dict, metadata_2d, affine_3d, axis, idx, df, img, emitted>>

\* lines 188-197: get_parallel_transform; what it raises leaves the generator
Transform ==
    /\ pc = "transform"
    /\ LET res == get_parallel_transform(slice_ref_coordinate, affine_2d, affine_3d,
                      axis, args.downsample_ref, args.downsample_img)
           call == Ev("get_parallel_transform", image_id, res.status = "ok",
                      <<slice_ref_coordinate, axis>>)
       IN IF res.status = "ok"
          THEN /\ df' = res
               /\ trace' = Append(trace, call)
               /\ pc' = "get_image"
          ELSE /\ Raise(<<call>>)
               /\ UNCHANGED df
    /\ UNCHANGED <<previous, args, metadata_2d_dict, metadata_2d, affine_3d, axis, idx, pir, img, emitted>>

\* lines 199-202: get_image(image_id, downsample=downsample_img), then the
\* four-tuple is yielded when no expression image is asked for
GetImage ==
    /\ pc = "get_image"
    /\ \E ok \in BOOLEAN :
         IF ok
         THEN LET image == Image(image_id, args.downsample_img, FALSE)
                  call == Ev("get_image", image_id, TRUE, <<FALSE>>)
              IN /\ img' = image
                 /\ IF YieldsWithoutExpression(args.include_expression)
                    THEN Yield(Record4(image_id, slice_ref_coordinate, image, df),
                               Append(trace, call))
                    ELSE /\ trace' = Append(trace, call)
                         /\ pc' = "get_image_expression"
                         /\ UNCHANGED <<emitted, idx>>
         ELSE /\ Raise(<<Ev("get_image", image_id, FALSE, <<FALSE>>)>>)
              /\ UNCHANGED <<img, emitted, idx>>
    /\ UNCHANGED <<previous, args, metadata_2d_dict, metadata_2d, affine_3d, axis, pir, df>>

\* lines 203-209: get_image(image_id, expression=True, ...) and the five-tuple
GetImageExpression ==
    /\ pc = "get_image_expression"
    /\ \E ok \in BOOLEAN :
         IF ok
         THEN Yield(Record5(image_id, slice_ref_coordinate, img, df,
                            Image(image_id, args.downsample_img, TRUE)),
                    Append(trace, Ev("get_image", image_id, TRUE, <<TRUE>>)))
         ELSE /\ Raise(<<Ev("get_image", image_id, FALSE, <<TRUE>>)>>)
              /\ UNCHANGED <<emitted, idx>>
    /\ UNCHANGED <<previous, args, metadata_2d_dict, metadata_2d, affine_3d, axis, pir, df, img>>

----------------------------------------------------------------------------
(* get_parallel_transform called on its own *)

SliceCoordinateArgs == {0, 5}
TransformAxisArgs == {"coronal", "transverse", "sagittal", "oblique"}
TransformDownsampleRefArgs == {-4000, 0, 4000, 6000}
TransformDownsampleImgArgs == {0, 1, 2, 4}

Affine2DArgs ==
    { << <<1, 0, 0>>, <<0, 1, 0>> >>,                   \* (2, 3)
      << <<2, 1, 3>>, <<1, 4, 5>> >>,                   \* (2, 3)
      << <<1, 0, 0>>, <<0, 1, 0>>, <<0, 0, 1>> >>,      \* (3, 3)
      << <<1, 0, 0>> >>,                                \* (1, 3)
      << <<1, 0>>, <<0, 1>> >>,                         \* (2, 2)
      << <<1, 0, 0, 0>>, <<0, 1, 0, 0>> >> }            \* (2, 4)

Affine3DArgs ==
    { << <<0, 1, 0, 0>>, <<0, 0, 1, 0>>, <<0, 0, 0, 1>> >>,                   \* (3, 4)
      << <<1, 0, 0, 0>>, <<0, 0, 1, 0>>, <<0, 0, 0, 1>> >>,                   \* (3, 4)
      << <<1, 0, 0, 0>>, <<0, 1, 0, 0>>, <<0, 0, 0, 1>> >>,                   \* (3, 4)
      << <<1, 2, 0, 1>>, <<0, 1, 3, 2>>, <<1, 1, 1, 1>> >>,                   \* (3, 4)
      << <<0, 1, 0, 0>>, <<0, 0, 1, 0>> >>,                                   \* (2, 4)
      << <<0, 1, 0, 0>>, <<0, 0, 1, 0>>, <<0, 0, 0, 1>>, <<1, 0, 0, 0>> >>,   \* (4, 4)
      << <<0, 1, 0, 0>> >>,                                                   \* (1, 4)
      << <<1, 0, 0>>, <<0, 1, 0>>, <<0, 0, 1>> >>,                            \* (3, 3)
      << <<1, 0, 0, 0, 0>>, <<0, 1, 0, 0, 0>>, <<0, 0, 1, 0, 0>> >> }         \* (3, 5)

NoResult == Raised("", 0, 0, 0)
NoCall == [called |-> FALSE, args |-> <<>>, res |-> NoResult]

TInit ==
    /\ t_pc = "called"
    /\ t_args \in [slice_coordinate : SliceCoordinateArgs, affine_2d : Affine2DArgs,
                   affine_3d : Affine3DArgs, axis : TransformAxisArgs,
                   downsample_ref : TransformDownsampleRefArgs,
                   downsample_img : TransformDownsampleImgArgs]
    /\ t_res = NoResult
    /\ t_prev = NoCall

TIdle ==
    /\ t_pc = "idle"
    /\ t_args = <<>>
    /\ t_res = NoResult
    /\ t_prev = NoCall

\* the call runs to its return or to the exception it raises
TCall ==
    /\ t_pc = "called"
    /\ t_res' = get_parallel_transform(t_args.slice_coordinate, t_args.affine_2d,
                    t_args.affine_3d, t_args.axis, t_args.downsample_ref,
                    t_args.downsample_img)
    /\ t_pc' = "returned"
    /\ UNCHANGED <<t_args, t_prev>>

\* the caller calls once more, all arguments the same but downsample_img
TCallAgain ==
    /\ t_pc = "returned"
    /\ ~t_prev.called
    /\ \E k \in TransformDownsampleImgArgs :
          t_args' = [t_args EXCEPT !.downsample_img = k]
    /\ t_prev' = [called |-> TRUE, args |-> t_args, res |-> t_res]
    /\ t_res' = NoResult
    /\ t_pc' = "called"

----------------------------------------------------------------------------
(* Specifications *)

Init == GenInit /\ TIdle

Next ==
    \/ Request /\ UNCHANGED t_vars
    \/ Get2dBulk /\ UNCHANGED t_vars
    \/ Get3d /\ UNCHANGED t_vars
    \/ GetAxis /\ UNCHANGED t_vars
    \/ XyToPir /\ UNCHANGED t_vars
    \/ Transform /\ UNCHANGED t_vars
    \/ GetImage /\ UNCHANGED t_vars
    \/ GetImageExpression /\ UNCHANGED t_vars

\* one invocation of download_parallel_dataset and its consumer
Spec == Init /\ [][Next]_vars

\* the same, with a consumer that keeps requesting and calls that return
FairSpec == Spec /\ WF_vars(Next)

InvokeNext ==
    \/ Next
    \/ Invoke /\ UNCHANGED t_vars

\* the same, with a caller that may invoke download_parallel_dataset a second
\* time; the histories trace and emitted are those of the current invocation
InvokeSpec == Init /\ [][InvokeNext]_vars

TransformInit ==
    /\ TInit
    /\ args = [downsample_ref |-> 1, detection_xy |-> <<0, 0>>,
               include_expression |-> FALSE, downsample_img |-> 0]
    /\ pc = "none"
    /\ metadata_2d_dict = <<>>
    /\ metadata_2d = <<>>
    /\ affine_3d = <<>>
    /\ axis = ""
    /\ idx = 0
    /\ pir = <<0, 0, 0>>
    /\ df = <<>>
    /\ img = <<>>
    /\ trace = <<>>
    /\ emitted = <<>>
    /\ previous = NoInvocation

TransformNext ==
    \/ TCall /\ UNCHANGED gen_vars
    \/ TCallAgain /\ UNCHANGED gen_vars

\* a call of get_parallel_transform, for every choice of its arguments, and a
\* second call that differs in downsample_img at most
TransformSpec == TransformInit /\ [][TransformNext]_vars

----------------------------------------------------------------------------
(* Vocabulary of the claims *)

KnownAxes == {"coronal", "sagittal", "transverse"}

CollaboratorCalls ==
    {"get_2d_bulk", "get_3d", "get_axis", "xy_to_pir_API_single", "get_image"}

PerImageCalls == {"xy_to_pir_API_single", "get_parallel_transform", "get_image"}

\* position of an image in the mapping get_2d_bulk returned, and its section number
DictPos(id) == CHOOSE k \in 1..Len(metadata_2d_dict) : metadata_2d_dict[k][1] = id
SectionOf(id) == metadata_2d_dict[DictPos(id)][2][2]

\* position of an image in the sorted list
SortedPos(id) == CHOOSE k \in 1..Len(metadata_2d) : metadata_2d[k][1] = id

\* the indices of the history holding a call for image id
CallsFor(names, id) ==
    {k \in 1..Len(trace) : trace[k].ev \in names /\ trace[k].id = id}

\* the number of requests made before history index k
RequestsBefore(k) == Cardinality({j \in 1..(k - 1) : trace[j].ev = "next"})

ImagesStarted == {trace[k].id : k \in {j \in 1..Len(trace) : trace[j].ev \in PerImageCalls}}

Settled == pc \in {"suspended", "done", "failed"}

----------------------------------------------------------------------------
(* Claims about download_parallel_dataset *)

\* C1: records are emitted in non-increasing section-number order (of two
\* consecutive records the earlier has the section number >= the later), and
\* records with equal section numbers come in the order of the metadata mapping.
\* The two together fix the order of any two records from the mapping alone.
C1_DescendingSectionOrder ==
    /\ \A k \in 1..(Len(emitted) - 1) :
          SectionOf(emitted[k][1]) >= SectionOf(emitted[k + 1][1])
    /\ \A k, l \in 1..Len(emitted) :
          (k < l /\ SectionOf(emitted[k][1]) = SectionOf(emitted[l][1]))
              => DictPos(emitted[k][1]) < DictPos(emitted[l][1])

\* every image was emitted; the sort moved a later entry of the mapping in front
\* of an earlier one, and left two entries with equal section numbers in place
C1_Witness ==
    /\ Len(emitted) = 3
    /\ \E k, l \in 1..3 :
          /\ k < l
          /\ SectionOf(emitted[k][1]) > SectionOf(emitted[l][1])
          /\ DictPos(emitted[k][1]) > DictPos(emitted[l][1])
    /\ \E k, l \in 1..3 :
          /\ k < l
          /\ SectionOf(emitted[k][1]) = SectionOf(emitted[l][1])
          /\ emitted[k][1] > emitted[l][1]

\* C2: lazy, pull-based evaluation.  In every reachable state the images for
\* which a per-image call was made are at most as many as the requests made; the
\* calls for the k-th image of the sorted list come behind the k-th request; and
\* nothing happens without a request: the history starts with a request and what
\* follows a yield is a request.
C2_Lazy ==
    /\ Cardinality(ImagesStarted) <= NumRequests
    /\ \A k \in 1..Len(trace) :
          trace[k].ev \in PerImageCalls => RequestsBefore(k) >= SortedPos(trace[k].id)
    /\ trace # <<>> => trace[1].ev = "next"
    /\ \A k \in 1..(Len(trace) - 1) :
          trace[k].ev = "yield" => trace[k + 1].ev = "next"

\* the consumer stopped behind the first of several records: one image was
\* worked on, the others were not touched
C2_Witness ==
    /\ pc = "suspended"
    /\ Len(emitted) = 1
    /\ Len(metadata_2d) >= 2
    /\ NumRequests = 1
    /\ Cardinality(ImagesStarted) = 1

\* the first failed collaborator call of the history (0: none)
FirstFailure ==
    LET F == {k \in 1..Len(trace) : trace[k].ev \in CollaboratorCalls /\ ~trace[k].ok}
    IN IF F = {} THEN 0 ELSE CHOOSE k \in F : \A j \in F : k <= j

\* C3: failure semantics.  When a collaborator call fails, the failure reaches
\* the consumer on the same request (the raise follows the call directly), the
\* call is not made again, no call at all is made behind it, also not on later
\* requests, the image being processed gets no record, and the records emitted
\* are exactly those of the images in front of it in the sorted list.
C3_FailurePropagates ==
    LET f == FirstFailure
    IN f # 0 =>
         /\ Len(trace) > f /\ trace[f + 1].ev = "raise"
         /\ \A k \in (f + 1)..Len(trace) : trace[k].ev \in {"raise", "next", "stop"}
         /\ \A k \in 1..Len(trace) :
               (k # f /\ trace[k].ev = trace[f].ev /\ trace[k].id = trace[f].id)
                  => (trace[k].ok /\ trace[k].val # trace[f].val)
         /\ \A k \in 1..Len(emitted) : emitted[k][1] # trace[f].id
         /\ pc = "failed"
         /\ IF trace[f].id = 0
            THEN emitted = <<>>
            ELSE /\ Len(emitted) = SortedPos(trace[f].id) - 1
                 /\ \A k \in 1..Len(emitted) : emitted[k][1] = metadata_2d[k][1]

\* get_image failed for the second image and the consumer asked again
C3_Witness ==
    /\ FirstFailure # 0
    /\ trace[FirstFailure].ev = "get_image"
    /\ Len(emitted) = 1
    /\ NumLateRequests >= 1

\* C4: flag invariant.  Every record has 4 elements (image_id, slice coordinate,
\* image, displacement field) when include_expression is False and 5 (the same
\* and the expression image) when it is True; get_image with expression=True was
\* called for an emitted image exactly when include_expression is True, and
\* never when it is False.
C4_FlagInvariant ==
    /\ \A k \in 1..Len(emitted) :
          LET rec == emitted[k]
              id == rec[1]
          IN /\ Len(rec) = (IF args.include_expression THEN 5 ELSE 4)
             /\ id = metadata_2d[k][1]
             /\ rec[3] = Image(id, args.downsample_img, FALSE)
             /\ rec[4].status = "ok"
             /\ args.include_expression => rec[5] = Image(id, args.downsample_img, TRUE)
             /\ Cardinality({j \in CallsFor({"get_image"}, id) : trace[j].val = <<TRUE>>})
                   = (IF args.include_expression THEN 1 ELSE 0)
    /\ ~args.include_expression =>
          \A k \in 1..Len(trace) : trace[k].ev = "get_image" => trace[k].val = <<FALSE>>

\* a run with include_expression that emitted every record of a dataset of 3
C4_Witness ==
    /\ args.include_expression
    /\ Len(emitted) = 3
    /\ pc = "done"

\* the calls and yields of the history, as (name, image, kind of image asked for)
IsProtocolEvent(e) == e.ev \notin {"next", "stop", "raise"}
Observed ==
    LET sel == SelectSeq(trace, IsProtocolEvent)
    IN [k \in 1..Len(sel) |->
          <<sel[k].ev, sel[k].id,
            IF sel[k].ev # "get_image" THEN ""
            ELSE IF sel[k].val[1] THEN "expression" ELSE "raw">>]

RECURSIVE ExpectedPerImage(_)
\* what the images of the sorted list from position k on are expected to cause
ExpectedPerImage(k) ==
    IF k > Len(metadata_2d) THEN <<>>
    ELSE LET id == metadata_2d[k][1]
         IN << <<"xy_to_pir_API_single", id, "">>, <<"get_parallel_transform", id, "">>,
               <<"get_image", id, "raw">> >>
            \o (IF args.include_expression
                THEN << <<"get_image", id, "expression">> >> ELSE <<>>)
            \o << <<"yield", id, "">> >>
            \o ExpectedPerImage(k + 1)

ExpectedProtocol ==
    << <<"get_2d_bulk", 0, "">>, <<"get_3d", 0, "">>, <<"get_axis", 0, "">> >>
    \o ExpectedPerImage(1)

IsPrefix(a, b) == Len(a) <= Len(b) /\ \A k \in 1..Len(a) : a[k] = b[k]

NothingFailed == \A k \in 1..Len(trace) : trace[k].ok

\* C5: protocol order and call counts of a run without failure: get_2d_bulk,
\* get_3d and get_axis once each in this order, then for each image in sorted
\* order one xy_to_pir_API_single, one get_parallel_transform, one raw get_image,
\* one expression get_image exactly when include_expression, and the yield of
\* its record; images are not interleaved.  While the run goes on the calls made
\* are a prefix of this sequence, at its end they are the whole sequence.
C5_ProtocolOrder ==
    NothingFailed =>
        /\ IsPrefix(Observed, ExpectedProtocol)
        /\ pc = "done" => Observed = ExpectedProtocol
        /\ pc = "suspended" => Observed[Len(Observed)][1] = "yield"

\* a complete run over 3 images without the expression image: 3 + 3 * 4 events
C5_Witness ==
    /\ pc = "done"
    /\ NothingFailed
    /\ ~args.include_expression
    /\ Len(metadata_2d) = 3
    /\ Len(Observed) = 15

\* no collaborator call failed, and what the collaborators returned is what
\* their interface promises: a known axis name, a (3, 4) matrix
CollaboratorsHonourContract ==
    /\ \A k \in 1..Len(trace) : trace[k].ev \in CollaboratorCalls => trace[k].ok
    /\ axis \in KnownAxes \cup {""}
    /\ affine_3d = <<>> \/ (Rows(affine_3d) = 3 /\ Cols(affine_3d) = 4)

EmittedIds == {emitted[k][1] : k \in 1..Len(emitted)}
DictIds == {metadata_2d_dict[k][1] : k \in 1..Len(metadata_2d_dict)}

C6_Complete ==
    pc = "done" =>
        /\ CollaboratorsHonourContract =>
              /\ Len(emitted) = Len(metadata_2d_dict)
              /\ EmittedIds = DictIds
              /\ Cardinality(EmittedIds) = Len(emitted)
        /\ metadata_2d_dict = <<>> => (emitted = <<>> /\ ImagesStarted = {})

\* C6: finiteness and completeness.  With collaborators that do not fail and a
\* consumer that keeps requesting, the generator eventually ends; when it has
\* ended it has emitted exactly one record for every entry of the mapping (each
\* image_id once), and for an empty mapping no record and no per-image call.
C6_EndsComplete ==
    /\ <>(~CollaboratorsHonourContract \/ pc = "done")
    /\ []C6_Complete

\* the generator ended after one record for each of 3 images
C6_Witness ==
    /\ pc = "done"
    /\ CollaboratorsHonourContract
    /\ Len(metadata_2d_dict) = 3
    /\ Len(emitted) = 3

\* the value of the only successful call of this name for the image
ReturnFor(name, id) ==
    trace[CHOOSE k \in 1..Len(trace) :
              trace[k].ev = name /\ trace[k].id = id /\ trace[k].ok].val

\* C7: slice-coordinate selection.  The slice coordinate of every record is the
\* p that xy_to_pir_API_single returned for the record's image when the axis is
\* "coronal" and the r when it is "sagittal" or "transverse"; the same value was
\* passed to get_parallel_transform for that image; and every call of
\* get_parallel_transform was given the axis the one get_axis call returned.
C7_SliceCoordinate ==
    /\ \A k \in 1..Len(emitted) :
          LET id == emitted[k][1]
              v == ReturnFor("xy_to_pir_API_single", id)
          IN /\ v = PirFor(args.detection_xy, id)
             /\ axis = "coronal" => emitted[k][2] = v[1]
             /\ axis \in {"sagittal", "transverse"} => emitted[k][2] = v[3]
             /\ axis \in KnownAxes
             /\ ReturnFor("get_parallel_transform", id)[1] = emitted[k][2]
    /\ Cardinality(CallsFor({"get_axis"}, 0)) <= 1
    /\ \A k \in 1..Len(trace) :
          trace[k].ev = "get_parallel_transform"
              => trace[k].val[2] = ReturnFor("get_axis", 0)[1]

\* two records of a transverse dataset, with different coordinates
C7_Witness ==
    /\ axis = "transverse"
    /\ Len(emitted) >= 2
    /\ emitted[1][2] # emitted[2][2]

UnknownAxisReturned == axis # "" /\ axis \notin KnownAxes

\* the calls to collaborators made for single images
PerImageCollaboratorCalls ==
    {k \in 1..Len(trace) : trace[k].ev \in {"xy_to_pir_API_single", "get_image"}}

\* C8 as stated: when get_axis returns an unknown name the run fails at once, for
\* every dataset size: no per-image collaborator call follows and no record is
\* emitted.  (Read where the request has come to its end.)
C8_AsStated ==
    (UnknownAxisReturned /\ Settled) =>
        /\ pc = "failed"
        /\ PerImageCollaboratorCalls = {}
        /\ emitted = <<>>

\* C8, amended: when get_axis returns an unknown name, a non-empty dataset fails
\* on the first request, but only in get_parallel_transform for the first image
\* of the sorted list, that is behind one xy_to_pir_API_single call for that
\* image; no get_image call is made and no record is emitted.  An empty dataset
\* does not fail: the sequence ends without a record.
C8_UnknownAxis ==
    (UnknownAxisReturned /\ Settled) =>
        /\ emitted = <<>>
        /\ NumRequests - NumLateRequests = 1
        /\ IF metadata_2d = <<>>
           THEN pc = "done" /\ ImagesStarted = {}
           ELSE /\ pc = "failed"
                /\ ImagesStarted = {metadata_2d[1][1]}
                /\ \A k \in PerImageCollaboratorCalls :
                      trace[k].ev = "xy_to_pir_API_single"
                /\ Cardinality(PerImageCollaboratorCalls) = 1
                /\ \A k \in PerImageCollaboratorCalls : trace[k].ok =>
                      /\ Len(trace) > k + 1
                      /\ trace[k + 1].ev = "get_parallel_transform"
                      /\ ~trace[k + 1].ok
                      /\ trace[k + 2].ev = "raise"

\* an unknown axis, a dataset of 3: the run failed in get_parallel_transform
C8_Witness ==
    /\ UnknownAxisReturned
    /\ pc = "failed"
    /\ Len(metadata_2d) = 3
    /\ \E k \in 1..Len(trace) : trace[k].ev = "get_parallel_transform" /\ ~trace[k].ok

----------------------------------------------------------------------------
(* Claims about get_parallel_transform *)

Shape(m) == <<Rows(m), Cols(m)>>

\* C9: with an axis outside the three known names the call fails before any
\* matrix product is computed (and before any array is allocated) and returns
\* no displacement field, whatever the other arguments are.
C9_UnknownAxisFailsFirst ==
    (t_pc = "returned" /\ t_args.axis \notin KnownAxes) =>
        /\ t_res.status = "IndexError"
        /\ t_res.matmuls = 0
        /\ t_res.arrays = 0
        /\ t_res.tx = <<>> /\ t_res.ty = <<>>

\* an unknown axis together with matrices of wrong shapes and downsample_ref 0
C9_Witness ==
    /\ t_pc = "returned"
    /\ t_args.axis = "oblique"
    /\ Shape(t_args.affine_3d) = <<3, 3>>
    /\ Shape(t_args.affine_2d) = <<2, 2>>
    /\ t_args.downsample_ref = 0
    /\ t_res.status = "IndexError"

\* the arguments other than the matrices are valid
ValidAxisAndGrid == t_args.axis \in KnownAxes /\ t_args.downsample_ref >= 1

\* C10 as stated: a matrix of non-conforming shape (affine_2d not (2, 3) or
\* affine_3d not (3, 4)) makes the call fail with a shape-mismatch error before
\* any numeric work; no displacement field is returned.
C10_AsStated ==
    (/\ t_pc = "returned"
     /\ ValidAxisAndGrid
     /\ (Shape(t_args.affine_2d) # <<2, 3>> \/ Shape(t_args.affine_3d) # <<3, 4>>)) =>
        /\ t_res.status = "ValueError"
        /\ t_res.arrays = 0
        /\ t_res.matmuls = 0

\* C10, amended: only the number of columns is checked, and by the matrix
\* products themselves.  affine_3d without 4 columns fails in the first product
\* and, else, affine_2d without 3 columns in the second, both with a
\* shape-mismatch error raised after the two coordinate arrays were built;
\* affine_2d with 3 columns and one row fails with an IndexError behind both
\* products; any other shape (affine_3d (1, 4), (2, 4), (4, 4); affine_2d
\* (3, 3)) is accepted and a displacement field is returned.
C10_ShapeMismatch ==
    (t_pc = "returned" /\ ValidAxisAndGrid) =>
        LET a2 == t_args.affine_2d
            a3 == t_args.affine_3d
        IN /\ Cols(a3) # 4 =>
                 (t_res.status = "ValueError" /\ t_res.line = 90
                  /\ t_res.arrays = 2 /\ t_res.matmuls = 0)
           /\ (Cols(a3) = 4 /\ Cols(a2) # 3) =>
                 (t_res.status = "ValueError" /\ t_res.line = 92
                  /\ t_res.arrays = 2 /\ t_res.matmuls = 1)
           /\ (Cols(a3) = 4 /\ Cols(a2) = 3 /\ Rows(a2) < 2) =>
                 (t_res.status = "IndexError" /\ t_res.line = 95 /\ t_res.matmuls = 2)
           /\ (Cols(a3) = 4 /\ Cols(a2) = 3 /\ Rows(a2) >= 2) =>
                 (/\ t_res.status = "ok"
                  /\ Len(t_res.tx) = t_res.grid_shape[1]
                  /\ Len(t_res.ty) = t_res.grid_shape[1])
           /\ t_res.status # "ok" => (t_res.tx = <<>> /\ t_res.ty = <<>>)

\* affine_3d of shape (4, 4) and affine_2d of shape (3, 3): a field is returned
C10_Witness ==
    /\ t_pc = "returned"
    /\ ValidAxisAndGrid
    /\ Shape(t_args.affine_3d) = <<4, 4>>
    /\ Shape(t_args.affine_2d) = <<3, 3>>
    /\ t_res.status = "ok"

\* C11 as stated: with downsample_ref < 1 the call fails before any numeric
\* work, that is before a coordinate array is allocated or multiplied, for
\* every axis; no displacement field is returned.
C11_AsStated ==
    (t_pc = "returned" /\ t_args.downsample_ref < 1) =>
        /\ t_res.status # "ok"
        /\ t_res.arrays = 0
        /\ t_res.matmuls = 0
        /\ t_res.tx = <<>> /\ t_res.ty = <<>>

\* C11, amended: with downsample_ref < 1 the call fails and returns no
\* displacement field, and no matrix product is computed, for every axis.  With
\* downsample_ref = 0 (and a known axis) the floor division of line 82 raises
\* ZeroDivisionError before any array is allocated.  With a negative
\* downsample_ref (and a known axis) both grid dimensions are negative, their
\* product is positive, coords_ref is allocated and its fixed row multiplied,
\* and only np.indices at line 87 raises ValueError.  An unknown axis fails
\* first, at line 79.
C11_DownsampleRefBelowOne ==
    (t_pc = "returned" /\ t_args.downsample_ref < 1) =>
        /\ t_res.status # "ok"
        /\ t_res.matmuls = 0
        /\ t_res.tx = <<>> /\ t_res.ty = <<>>
        /\ t_args.axis \notin KnownAxes =>
              (t_res.status = "IndexError" /\ t_res.line = 79 /\ t_res.arrays = 0)
        /\ (t_args.axis \in KnownAxes /\ t_args.downsample_ref = 0) =>
              (t_res.status = "ZeroDivisionError" /\ t_res.line = 82 /\ t_res.arrays = 0)
        /\ (t_args.axis \in KnownAxes /\ t_args.downsample_ref < 0) =>
              (/\ t_res.status = "ValueError" /\ t_res.line = 87 /\ t_res.arrays = 1
               /\ \A k \in 1..2 : grid_shape_of(t_args.axis, t_args.downsample_ref)[k] < 0)

\* a negative downsample_ref with conforming matrices: coords_ref was allocated
\* before the call failed
C11_Witness ==
    /\ t_pc = "returned"
    /\ t_args.downsample_ref < 0
    /\ t_args.axis = "sagittal"
    /\ Shape(t_args.affine_2d) = <<2, 3>>
    /\ Shape(t_args.affine_3d) = <<3, 4>>
    /\ t_res.status = "ValueError"
    /\ t_res.arrays = 1

\* the call returned a displacement field
FieldReturned == t_pc = "returned" /\ t_res.status = "ok"

\* the extents of the two axes other than ax, in the order coronal, transverse,
\* sagittal, each divided by d and rounded down
ExpectedGridShape(ax, d) ==
    CASE ax = "coronal"    -> <<8000 \div d, 11400 \div d>>
      [] ax = "transverse" -> <<13200 \div d, 11400 \div d>>
      [] ax = "sagittal"   -> <<13200 \div d, 8000 \div d>>

\* the grid g has rows x cols cells
HasShape(g, rows, cols) ==
    /\ Len(g) = rows
    /\ \A i \in 1..rows : Len(g[i]) = cols

\* C12: for each of the three axes and every downsample_ref >= 1 the grid shape
\* used is (extent_a // downsample_ref, extent_b // downsample_ref) for the two
\* axes a, b other than the fixed one, in the order coronal (13200), transverse
\* (8000), sagittal (11400); the points transformed are as many as the product
\* of the two dimensions, one per grid cell; and the tx and ty of a returned
\* field have exactly this shape.  For coronal and downsample_ref = 1 the grid
\* shape is (8000, 11400).
C12_GridShape ==
    /\ (t_pc = "returned" /\ t_args.axis \in KnownAxes /\ t_args.downsample_ref >= 1) =>
          LET ax == t_args.axis
              d == t_args.downsample_ref
              gs == ExpectedGridShape(ax, d)
          IN /\ grid_shape_of(ax, d) = gs
             /\ n_pixels_of(ax, d) = gs[1] * gs[2]
             /\ {FlatIndex(i, j, grid_shape_of(ax, d)) : i \in 1..gs[1], j \in 1..gs[2]}
                   = 1..n_pixels_of(ax, d)
             /\ t_res.status = "ok" =>
                   /\ t_res.grid_shape = gs
                   /\ HasShape(t_res.tx, gs[1], gs[2])
                   /\ HasShape(t_res.ty, gs[1], gs[2])
    /\ FieldReturned => (t_args.axis \in KnownAxes /\ t_args.downsample_ref >= 1)
    /\ grid_shape_of("coronal", 1) = <<8000, 11400>>
    /\ n_pixels_of("coronal", 1) = 8000 * 11400

\* a transverse slice at downsample_ref 4000: a field of shape (3, 2), the second
\* dimension rounded down from 2.85
C12_Witness ==
    /\ FieldReturned
    /\ t_args.axis = "transverse"
    /\ t_args.downsample_ref = 4000
    /\ t_res.grid_shape = <<3, 2>>
    /\ HasShape(t_res.tx, 3, 2)

\* the matrices have the documented shapes
ConformingShapes ==
    Shape(t_args.affine_2d) = <<2, 3>> /\ Shape(t_args.affine_3d) = <<3, 4>>

\* the homogeneous reference point of grid index (i, j), counted from 0
RefPoint(ax, slice_coordinate, i, j, d) ==
    CASE ax = "coronal"    -> <<slice_coordinate, i * d, j * d, 1>>
      [] ax = "transverse" -> <<i * d, slice_coordinate, j * d, 1>>
      [] ax = "sagittal"   -> <<i * d, j * d, slice_coordinate, 1>>

Dot3(r, s) == r[1] * s[1] + r[2] * s[2] + r[3] * s[3]
Dot4(r, v) == r[1] * v[1] + r[2] * v[2] + r[3] * v[3] + r[4] * v[4]

\* the section-space point of a reference point
SectionPoint(a3, v) == <<Dot4(a3[1], v), Dot4(a3[2], v), 1>>

\* the number n / 2 ** k is the value of the cell
IsQuotient(cell, n, k) ==
    cell[1] * (CASE k = 0 -> 1 [] k = 1 -> 2 [] k = 2 -> 4 [] k = 4 -> 16) = n * cell[2]

\* C13: coordinate composition.  In a field returned for matrices of the
\* documented shapes, for every grid index (i, j) within grid_shape, with v the
\* homogeneous reference point (fixed axis = slice_coordinate, first variable
\* axis = i * downsample_ref, second = j * downsample_ref, last component 1) and
\* s = ((affine_3d v)[0], (affine_3d v)[1], 1):
\*   tx[i][j] = (affine_2d s)[0] / 2 ** downsample_img
\*   ty[i][j] = (affine_2d s)[1] / 2 ** downsample_img
\* the cells being laid out in row-major order of grid_shape.
C13_CoordinateComposition ==
    (FieldReturned /\ ConformingShapes) =>
        \A i \in 0..(t_res.grid_shape[1] - 1), j \in 0..(t_res.grid_shape[2] - 1) :
            LET v == RefPoint(t_args.axis, t_args.slice_coordinate, i, j,
                              t_args.downsample_ref)
                s == SectionPoint(t_args.affine_3d, v)
            IN /\ IsQuotient(t_res.tx[i + 1][j + 1], Dot3(t_args.affine_2d[1], s),
                             t_args.downsample_img)
               /\ IsQuotient(t_res.ty[i + 1][j + 1], Dot3(t_args.affine_2d[2], s),
                             t_args.downsample_img)
               /\ t_res.tx[i + 1][j + 1][2] > 0
               /\ t_res.ty[i + 1][j + 1][2] > 0

\* a transverse slice at coordinate 5 through general matrices, on a (3, 2) grid
\* and with downsample_img = 2: the last cell holds tx = 28032 / 4
C13_Witness ==
    /\ FieldReturned
    /\ ConformingShapes
    /\ t_args.axis = "transverse"
    /\ t_args.slice_coordinate = 5
    /\ t_args.downsample_ref = 4000
    /\ t_args.downsample_img = 2
    /\ t_args.affine_3d[1] = <<1, 2, 0, 1>>
    /\ t_args.affine_2d[1] = <<2, 1, 3>>
    /\ t_res.grid_shape = <<3, 2>>
    /\ t_res.tx[3][2] = <<28032, 4>>
    /\ t_res.ty[3][2] = <<56044, 4>>

\* two calls that differ in downsample_img at most both returned a field
TwoFieldsReturned ==
    /\ FieldReturned
    /\ t_prev.called
    /\ t_prev.res.status = "ok"

\* every cell of grid g holds the value of the same cell of grid h divided by q
\* (cells are fractions <<n, d>> with d > 0)
DividedBy(g, h, q) ==
    /\ Len(g) = Len(h)
    /\ \A i \in 1..Len(g) :
          /\ Len(g[i]) = Len(h[i])
          /\ \A j \in 1..Len(g[i]) :
                q * g[i][j][1] * h[i][j][2] = h[i][j][1] * g[i][j][2]

\* C14 as stated: doubling downsample_img, all other arguments equal, halves
\* every tx and ty value of the returned field, for every downsample_img >= 0.
C14_AsStated ==
    (TwoFieldsReturned /\ t_args.downsample_img = 2 * t_prev.args.downsample_img) =>
        /\ DividedBy(t_res.tx, t_prev.res.tx, 2)
        /\ DividedBy(t_res.ty, t_prev.res.ty, 2)

\* C14, amended: raising downsample_img by one, that is doubling the image
\* factor 2 ** downsample_img, all other arguments equal, halves every tx and ty
\* value of the returned field, for every grid cell.  Doubling downsample_img
\* itself from k to 2 k divides every value by 2 ** k: it leaves the field as it
\* is for k = 0, halves it for k = 1 only and quarters it for k = 2.
C14_DownsampleMonotonicity ==
    TwoFieldsReturned =>
        LET k == t_prev.args.downsample_img
            l == t_args.downsample_img
        IN /\ l = k + 1 =>
                 /\ DividedBy(t_res.tx, t_prev.res.tx, 2)
                 /\ DividedBy(t_res.ty, t_prev.res.ty, 2)
           /\ l = 2 * k =>
                 /\ DividedBy(t_res.tx, t_prev.res.tx,
                              CASE k = 0 -> 1 [] k = 1 -> 2 [] k = 2 -> 4)
                 /\ DividedBy(t_res.ty, t_prev.res.ty,
                              CASE k = 0 -> 1 [] k = 1 -> 2 [] k = 2 -> 4)
           /\ t_res.grid_shape = t_prev.res.grid_shape

\* a field computed with downsample_img = 1 and again with 2: the cell that held
\* 28032 / 2 holds 28032 / 4
C14_Witness ==
    /\ TwoFieldsReturned
    /\ t_prev.args.downsample_img = 1
    /\ t_args.downsample_img = 2
    /\ t_res.grid_shape = <<3, 2>>
    /\ t_prev.res.tx[3][2] = <<28032, 2>>
    /\ t_res.tx[3][2] = <<28032, 4>>

\* affine_3d copies the two variable axes of ax, in the order coronal,
\* transverse, sagittal, to the first two section-space components
IsCanonicalEmbedding(a3, ax) ==
    /\ Shape(a3) = <<3, 4>>
    /\ <<a3[1], a3[2]>> =
          CASE ax = "coronal"    -> << <<0, 1, 0, 0>>, <<0, 0, 1, 0>> >>
            [] ax = "transverse" -> << <<1, 0, 0, 0>>, <<0, 0, 1, 0>> >>
            [] ax = "sagittal"   -> << <<1, 0, 0, 0>>, <<0, 1, 0, 0>> >>

\* the arguments of the identity law
IdentityArguments ==
    /\ t_args.axis \in KnownAxes
    /\ IsCanonicalEmbedding(t_args.affine_3d, t_args.axis)
    /\ t_args.affine_2d = << <<1, 0, 0>>, <<0, 1, 0>> >>
    /\ t_args.downsample_img = 0

\* C15 as stated: under the arguments of the identity law, (tx, ty) at grid
\* index (i, j) is (j, i) scaled by downsample_ref, for every axis and index.
C15_AsStated ==
    (FieldReturned /\ IdentityArguments) =>
        \A i \in 0..(t_res.grid_shape[1] - 1), j \in 0..(t_res.grid_shape[2] - 1) :
            /\ t_res.tx[i + 1][j + 1] = <<j * t_args.downsample_ref, 1>>
            /\ t_res.ty[i + 1][j + 1] = <<i * t_args.downsample_ref, 1>>

\* C15, amended: under the arguments of the identity law, (tx, ty) at grid index
\* (i, j) is (i, j) scaled by downsample_ref, for every axis and every index: tx
\* follows the first index of the grid (the first variable axis), ty the second.
\* The pair (j, i) is met on the diagonal i = j only.
C15_IdentityLaw ==
    (FieldReturned /\ IdentityArguments) =>
        \A i \in 0..(t_res.grid_shape[1] - 1), j \in 0..(t_res.grid_shape[2] - 1) :
            /\ t_res.tx[i + 1][j + 1] = <<i * t_args.downsample_ref, 1>>
            /\ t_res.ty[i + 1][j + 1] = <<j * t_args.downsample_ref, 1>>
            /\ (/\ t_res.tx[i + 1][j + 1] = <<j * t_args.downsample_ref, 1>>
                /\ t_res.ty[i + 1][j + 1] = <<i * t_args.downsample_ref, 1>>) <=> i = j

\* the identity law on the (3, 2) grid of a sagittal slice: the cell of index
\* (2, 0) holds (tx, ty) = (8000, 0)
C15_Witness ==
    /\ FieldReturned
    /\ IdentityArguments
    /\ t_args.axis = "sagittal"
    /\ t_args.slice_coordinate = 5
    /\ t_args.downsample_ref = 4000
    /\ t_res.grid_shape = <<3, 2>>
    /\ t_res.tx[3][1] = <<8000, 1>>
    /\ t_res.ty[3][1] = <<0, 1>>

----------------------------------------------------------------------------
(* Claims about invocations of download_parallel_dataset *)

\* the indices of the current invocation's history holding a call of this name
DatasetCallsNamed(name) == {k \in 1..Len(trace) : trace[k].ev = name}

\* the three dataset-level calls were made in the current invocation, once each
AllDatasetCallsMade ==
    DatasetCallsOf(trace) = <<"get_2d_bulk", "get_3d", "get_axis">>

\* C16: invoking download_parallel_dataset makes no collaborator call by itself:
\* as long as the consumer has requested nothing, the invocation has made no
\* call at all, so a sequence created and never consumed makes none.  The
\* dataset-level calls get_2d_bulk, get_3d, get_axis are made behind the first
\* request and before the second, each at most once per invocation, and a
\* second invocation makes all of them again, whatever the first one did.
C16_CallsPerInvocation ==
    /\ NumRequests = 0 => (pc = "created" /\ trace = <<>>)
    /\ pc = "created" => trace = <<>>
    /\ \A k \in 1..Len(trace) :
          trace[k].ev \in CollaboratorCalls \cup {"get_parallel_transform"}
              => RequestsBefore(k) >= 1
    /\ \A k \in 1..Len(trace) : IsDatasetCall(trace[k]) => RequestsBefore(k) = 1
    /\ \A name \in DatasetCalls : Cardinality(DatasetCallsNamed(name)) <= 1
    /\ IsPrefix(DatasetCallsOf(trace), <<"get_2d_bulk", "get_3d", "get_axis">>)
    /\ pc \in {"suspended", "done"} => AllDatasetCallsMade
    /\ (pc = "failed" /\ ~AllDatasetCallsMade) =>
          (~trace[FirstFailure].ok /\ IsDatasetCall(trace[FirstFailure]))
    /\ ~previous.invoked => previous.calls = <<>>

\* the second invocation ended after the first had made the three dataset-level
\* calls: they were all made again, once each, and the consumer had made four
\* requests of the second sequence
C16_Witness ==
    /\ previous.invoked
    /\ previous.calls = <<"get_2d_bulk", "get_3d", "get_axis">>
    /\ pc = "done"
    /\ AllDatasetCallsMade
    /\ Len(emitted) = 3
    /\ NumRequests >= 4

====
